---- MODULE Spec2Model ----
(***************************************************************************)
(* Model of the passport auto-capture component                            *)
(* (src/src/components/PassportAutoCapture.tsx): the per-frame quality     *)
(* gate, the consecutive-pass counter and the asynchronous extraction.     *)
(*                                                                         *)
(* Numbers.  Fractions of the source are kept as hundredths (0.10 is 10,   *)
(* 1.0 s is 100); times are milliseconds; every comparison of the source   *)
(* is done by cross-multiplication, so it is exact.                        *)
(***************************************************************************)
EXTENDS Integers, Sequences, FiniteSets, TLC

\* ------------------------------------------------------------------------
\* Bounds of the model
\* ------------------------------------------------------------------------
\* width of the analysis buffer (const W of the loop, 480 in the source),
\* scaled down so that every pixel of the buffer is computed
W == 4
\* extractions that may be outstanding at once
MaxInFlight == 2
\* captures triggered in one behaviour
MaxTriggers == 3
\* last instant of the clock, in milliseconds
MaxTime == 1000

\* ------------------------------------------------------------------------
\* Options
\* ------------------------------------------------------------------------
DEFAULT_OPTS ==
  [ consecutiveFrames       |-> 8,
    sharpnessMin            |-> 35,
    fillMin                 |-> 10,
    motionMax               |-> 10,
    edgeBandFrac            |-> 14,
    edgeRatioMin            |-> 10,
    minSecondsBeforeCapture |-> 100 ]

\* opts.f ?? DEFAULT_OPTS.f: an option the caller left out is undefined
Opt(o, f) == IF f \in DOMAIN o THEN o[f] ELSE DEFAULT_OPTS[f]

\* width / height of one passport page, in hundredths
GUIDE_RATIO == 70

\* the opts property of the first render: partial option objects; the last
\* one leaves edgeBandFrac at its default
OptsChoices ==
  { [ consecutiveFrames |-> 2, edgeBandFrac |-> 50, minSecondsBeforeCapture |-> 0 ],
    [ consecutiveFrames |-> 3, edgeBandFrac |-> 50, minSecondsBeforeCapture |-> 50 ],
    [ consecutiveFrames |-> 2, minSecondsBeforeCapture |-> 0 ] }

\* ------------------------------------------------------------------------
\* Arithmetic helpers
\* ------------------------------------------------------------------------
Min(a, b) == IF a <= b THEN a ELSE b
Max(a, b) == IF a >= b THEN a ELSE b
Abs(a) == IF a < 0 THEN 0 - a ELSE a

\* Math.round(n / d) for n >= 0, d > 0: halves round up
Round(n, d) == (2 * n + d) \div (2 * d)

\* s[1] + ... + s[n]
RECURSIVE SumTo(_, _)
SumTo(s, n) == IF n = 0 THEN 0 ELSE s[n] + SumTo(s, n - 1)

SeqSum(s) == SumTo(s, Len(s))

\* ------------------------------------------------------------------------
\* Geometry: view coordinates -> video coordinates
\* ------------------------------------------------------------------------
NoRect == [none |-> TRUE]

\* what computeRoiRect measures: the guide box relative to the container,
\* or NoRect when the container or the guide element is missing
Layouts ==
  { NoRect,
    [x |-> 9, y |-> 0, w |-> 14, h |-> 20, containerW |-> 32, containerH |-> 20],
    [x |-> 6, y |-> 0, w |-> 20, h |-> 20, containerW |-> 32, containerH |-> 20] }

\* videoWidth / videoHeight of the video element (0 until the source is ready)
VideoSizes == { [vw |-> 0, vh |-> 0], [vw |-> 16, vh |-> 10] }

\* variant: the scale of object-cover, Math.max of the two quotients
guideToVideoRectCover(roiInView, vw, vh) ==
  IF vw = 0 \/ vh = 0 THEN NoRect
  ELSE
    LET wFits == roiInView.containerW * vh >= roiInView.containerH * vw
        sn == IF wFits THEN roiInView.containerW ELSE roiInView.containerH
        sd == IF wFits THEN vw ELSE vh
        D  == 2 * sn
        xRaw == 2 * sd * roiInView.x - roiInView.containerW * sd + vw * sn
        yRaw == 2 * sd * roiInView.y - roiInView.containerH * sd + vh * sn
        x == Max(0, Min(vw * D, xRaw))
        y == Max(0, Min(vh * D, yRaw))
        w == Max(D, Min(vw * D - x, 2 * sd * roiInView.w))
        h == Max(D, Min(vh * D - y, 2 * sd * roiInView.h))
    IN [x |-> Round(x, D), y |-> Round(y, D), w |-> Round(w, D), h |-> Round(h, D)]

\* guideToVideoRect: scale = sn / sd is the object-contain scale; every
\* intermediate value is kept as a numerator over the denominator 2 * sn
guideToVideoRect(roiInView, vw, vh) ==
  IF vw = 0 \/ vh = 0 THEN NoRect
  ELSE
    LET wFits == roiInView.containerW * vh <= roiInView.containerH * vw
        sn == IF wFits THEN roiInView.containerW ELSE roiInView.containerH
        sd == IF wFits THEN vw ELSE vh
        D  == 2 * sn
        \* (roiInView.x - offsetX) / scale, offsetX = (containerW - vw*scale)/2
        xRaw == 2 * sd * roiInView.x - roiInView.containerW * sd + vw * sn
        yRaw == 2 * sd * roiInView.y - roiInView.containerH * sd + vh * sn
        x == Max(0, Min(vw * D, xRaw))
        y == Max(0, Min(vh * D, yRaw))
        w == Max(D, Min(vw * D - x, 2 * sd * roiInView.w))
        h == Max(D, Min(vh * D - y, 2 * sd * roiInView.h))
    IN [x |-> Round(x, D), y |-> Round(y, D), w |-> Round(w, D), h |-> Round(h, D)]

\* ------------------------------------------------------------------------
\* Frames
\* ------------------------------------------------------------------------
\* what the camera shows: a textured page at one of two positions, or dark
Scenes == {"page", "pageMoved", "dark"}

\* one RGBA pixel of the scene at buffer position (x, y), alpha left out
ScenePixel(s, x, y) ==
  LET v == CASE s = "page"      -> IF (x + 2 * y) % 3 = 0 THEN 72 ELSE 48
             [] s = "pageMoved" -> IF (x + 2 * y + 1) % 3 = 0 THEN 72 ELSE 48
             [] OTHER           -> 48
  IN <<v, v, v>>

\* getImageData(0, 0, width, height) after drawImage of the region: the
\* pixels row by row
ImageOf(s, width, height) ==
  [ width |-> width, height |-> height,
    data |-> [i \in 1..(width * height) |->
                ScenePixel(s, (i - 1) % width, (i - 1) \div width)] ]

\* ------------------------------------------------------------------------
\* analyzeRoi
\* ------------------------------------------------------------------------
\* (0.299 R + 0.587 G + 0.114 B) | 0; for the pixels of the frames and
\* patterns below the double sum truncates to the same integer
Luma(p) == (299 * p[1] + 587 * p[2] + 114 * p[3]) \div 1000

GrayOf(imgData) == [j \in 1..(imgData.width * imgData.height) |-> Luma(imgData.data[j])]

\* idx(x, y) of the source, for sequences that start at 1
Idx(x, y, width) == y * width + x + 1

Interior(x, y, width, height) ==
  /\ x >= 1 /\ x < width - 1
  /\ y >= 1 /\ y < height - 1

\* variant: a kernel whose weights do not add up to 0 (centre -3)
LapMapUnbalanced(gray, width, height) ==
  [i \in 1..(width * height) |->
     LET x == (i - 1) % width
         y == (i - 1) \div width
     IN IF Interior(x, y, width, height)
        THEN gray[Idx(x, y - 1, width)] + gray[Idx(x - 1, y, width)]
             - 3 * gray[Idx(x, y, width)]
             + gray[Idx(x + 1, y, width)] + gray[Idx(x, y + 1, width)]
        ELSE 0]

\* the Laplacian response map lap: 0 outside the interior
LapMap(gray, width, height) ==
  [i \in 1..(width * height) |->
     LET x == (i - 1) % width
         y == (i - 1) \div width
     IN IF Interior(x, y, width, height)
        THEN gray[Idx(x, y - 1, width)] + gray[Idx(x - 1, y, width)]
             - 4 * gray[Idx(x, y, width)]
             + gray[Idx(x + 1, y, width)] + gray[Idx(x, y + 1, width)]
        ELSE 0]

\* lapVar as the fraction num / den: meanL is the sum of the responses over
\* N = (width-2)*(height-2) || 1, the squared deviations are summed over the
\* whole map lap[0 .. lap.length) and divided by N
LapVar(gray, width, height) ==
  LET lap == LapMap(gray, width, height)
      N0 == (width - 2) * (height - 2)
      N == IF N0 = 0 THEN 1 ELSE N0
      S == SeqSum(lap)
      devs == [i \in 1..(width * height) |-> (N * lap[i] - S) * (N * lap[i] - S)]
  IN [num |-> SeqSum(devs), den |-> N * N * N]

\* variant: a sample at the brightness floor counts as bright
FillRatioInclusive(gray) ==
  [num |-> Cardinality({i \in DOMAIN gray : gray[i] >= 60}), den |-> Len(gray)]

\* bright / gray.length as a fraction
FillRatio(gray) ==
  [num |-> Cardinality({i \in DOMAIN gray : gray[i] > 60}), den |-> Len(gray)]

\* the Sobel magnitude map |gx| + |gy|: 0 outside the interior
SobelMap(gray, width, height) ==
  [i \in 1..(width * height) |->
     LET x == (i - 1) % width
         y == (i - 1) \div width
         g(dx, dy) == gray[Idx(x + dx, y + dy, width)]
     IN IF Interior(x, y, width, height)
        THEN LET gx == (g(1, -1) - g(-1, -1)) + 2 * (g(1, 0) - g(-1, 0))
                       + (g(1, 1) - g(-1, 1))
                 gy == (g(-1, 1) - g(-1, -1)) + 2 * (g(0, 1) - g(0, -1))
                       + (g(1, 1) - g(1, -1))
             IN Abs(gx) + Abs(gy)
        ELSE 0]

\* variant: sobel[i] >= thr
AboveThrInclusive(v, sum, sum2, n) ==
  /\ n * v >= sum
  /\ 25 * (n * v - sum) * (n * v - sum) >= 36 * Max(0, n * sum2 - sum * sum)

\* sobel[i] > thr with thr = mean + 1.2 * std over the whole map:
\* v > mean + 1.2 std  <=>  v > mean /\ (v - mean)^2 > 1.44 var,
\* with mean = sum / n and var = max(0, sum2 / n - mean^2)
AboveThr(v, sum, sum2, n) ==
  /\ n * v > sum
  /\ 25 * (n * v - sum) * (n * v - sum) > 36 * Max(0, n * sum2 - sum * sum)

\* countEdge: the pixels of the strip [sx, sx+sw) x [sy, sy+sh) above thr
countEdge(sobel, w, h, sx, sy, sw, sh, sum, sum2) ==
  Cardinality({ p \in (sx..(sx + sw - 1)) \X (sy..(sy + sh - 1)) :
                  /\ p[2] * w + p[1] + 1 \in DOMAIN sobel
                  /\ AboveThr(sobel[p[2] * w + p[1] + 1], sum, sum2, Len(sobel)) })

\* variant: Math.floor in place of Math.round
BandOfFloor(o, width, height) ==
  Max(1, (Opt(o, "edgeBandFrac") * Min(width, height)) \div 100)

\* Math.max(1, Math.round(edgeBandFrac * Math.min(width, height)))
BandOf(o, width, height) ==
  Max(1, Round(Opt(o, "edgeBandFrac") * Min(width, height), 100))

analyzeRoi(imgData, o) ==
  LET width == imgData.width
      height == imgData.height
      gray == GrayOf(imgData)
      sobel == SobelMap(gray, width, height)
      sum == SeqSum(sobel)
      sum2 == SeqSum([i \in DOMAIN sobel |-> sobel[i] * sobel[i]])
      band == BandOf(o, width, height)
      topCount == countEdge(sobel, width, height, 0, 0, width, band, sum, sum2)
      botCount == countEdge(sobel, width, height, 0, height - band, width, band, sum, sum2)
      leftCount == countEdge(sobel, width, height, 0, 0, band, height, sum, sum2)
      rightCount == countEdge(sobel, width, height, width - band, 0, band, height, sum, sum2)
  IN [ lapVar |-> LapVar(gray, width, height),
       fillRatio |-> FillRatio(gray),
       edge |-> [ topR |-> [num |-> topCount, den |-> width * band],
                  botR |-> [num |-> botCount, den |-> width * band],
                  leftR |-> [num |-> leftCount, den |-> height * band],
                  rightR |-> [num |-> rightCount, den |-> height * band] ],
       gray |-> gray ]

\* num / den >= t for a threshold t in whole units
AtLeast(q, t) == q.num >= t * q.den
\* num / den >= t / 100 for a threshold t in hundredths
AtLeast100(q, t) == 100 * q.num >= t * q.den

\* ------------------------------------------------------------------------
\* State
\* ------------------------------------------------------------------------
VARIABLES
  opts,             \* the opts held by the closure of the running loop
  pc,               \* position of the mount effect's async function
  videoRef,         \* TRUE while videoRef.current is the <video> element
  streamRef,        \* streamRef.current: "null" or "stream"
  cameraLive,       \* TRUE while an acquired stream has running tracks
  rafScheduled,     \* TRUE while a requested animation frame is pending
  error,            \* the error state: "null", "denied" or "initFailed"
  isCapturing,      \* the isCapturing state
  readyVisual,      \* the readyVisual state
  whyNot,           \* the whyNot state: the reasons, in order
  prevFrameRef,     \* << >> for null, else the previous gray buffer
  stableCountRef,   \* stableCountRef.current
  startedAtRef,     \* startedAtRef.current, milliseconds
  now,              \* performance.now(), milliseconds
  inFlight,         \* the extractions started and not yet settled
  captured,         \* history: calls of onCaptured
  rejected,         \* history: extractions whose promise was rejected; no
                    \*          handler is attached to the promise chain
  triggers,         \* history: calls of captureAndSend by the loop
  passRun,          \* history: analyzed passing ticks in a row, up to the
                    \*          required number
  resetSinceTrigger,\* history: the counter was set to 0 since the last trigger
  analyzedTicks,    \* history: frames analyzed so far, up to one more than
                    \*          the required number
  last,             \* history: the step taken last
  tick,             \* history: what the step taken last analyzed, NoTick
                    \*          unless it was an analyzed frame
  artifact,         \* history: what the step taken last gave to onCaptured,
                    \*          NoArtifact unless it was a fulfilled extraction
  input,            \* the arguments of the function applied on its own
  output,           \* its result, Pending before it is applied
  active,           \* start/stop-button variant: the active state
  loopActive        \* start/stop-button variant: the active that the running
                    \*          loop closure reads

\* the refs, the state and the history of the component
component == << opts, pc, videoRef, streamRef, cameraLive, rafScheduled, error,
                isCapturing, readyVisual, whyNot, prevFrameRef, stableCountRef,
                startedAtRef, now, inFlight, captured, rejected,
                triggers, passRun, resetSinceTrigger, analyzedTicks, last,
                tick, artifact >>

\* the state that only the start/stop-button variant has
variant == << active, loopActive >>

vars == << component, input, output, variant >>

\* the clock advances in steps of half a second
ClockStep == 500

\* the result of a function that was not applied yet
Pending == [pending |-> TRUE]

\* the step taken last analyzed no frame
NoTick == [analyzed |-> FALSE]

\* the step taken last called onCaptured with nothing
NoArtifact == [delivered |-> FALSE]

\* the state after the first render, with the mount effect's async function
\* waiting for getUserMedia
InitRefs ==
  /\ pc = "getUserMedia"
  /\ videoRef = TRUE
  /\ streamRef = "null"
  /\ cameraLive = FALSE
  /\ rafScheduled = FALSE
  /\ error = "null"
  /\ isCapturing = FALSE
  /\ readyVisual = FALSE
  /\ whyNot = << >>
  /\ prevFrameRef = << >>
  /\ stableCountRef = 0
  /\ startedAtRef = 0
  /\ now = 0
  /\ inFlight = << >>
  /\ captured = 0
  /\ rejected = 0
  /\ triggers = 0
  /\ passRun = 0
  /\ resetSinceTrigger = FALSE
  /\ analyzedTicks = 0
  /\ last = "mount"
  /\ tick = NoTick
  /\ artifact = NoArtifact

InitComponent ==
  /\ opts \in OptsChoices
  /\ InitRefs

\* this component has no start button: the variant's state stays as it is
NoVariant ==
  /\ active = FALSE
  /\ loopActive = FALSE

Init ==
  /\ InitComponent
  /\ input = << >>
  /\ output = Pending
  /\ NoVariant

\* the isCapturing that loop reads: startLoop is called once, by the mount
\* effect (dependency list []), so loop is the closure of the first render
\* and its isCapturing is the initial state useState(false)
loopIsCapturing == FALSE

consecutiveFrames == Opt(opts, "consecutiveFrames")

\* ------------------------------------------------------------------------
\* Session start and stop
\* ------------------------------------------------------------------------
\* cleanup(): cancel the pending frame, stop the tracks of the held stream,
\* drop the stream, the previous buffer and the count
cleanup ==
  /\ rafScheduled' = FALSE
  /\ cameraLive' = IF streamRef = "stream" THEN FALSE ELSE cameraLive
  /\ streamRef' = "null"
  /\ prevFrameRef' = << >>
  /\ stableCountRef' = 0
  /\ readyVisual' = FALSE

\* getUserMedia resolves: the stream is stored and attached; without a video
\* element play() is skipped and the loop starts at once
GetUserMediaResolves ==
  /\ pc = "getUserMedia"
  /\ streamRef' = "stream"
  /\ cameraLive' = TRUE
  /\ IF videoRef
     THEN /\ pc' = "play"
          /\ UNCHANGED << error, startedAtRef, rafScheduled >>
     ELSE /\ pc' = "started"
          /\ error' = "null"
          /\ startedAtRef' = now
          /\ rafScheduled' = TRUE
  /\ last' = "acquired"
  /\ tick' = NoTick
  /\ artifact' = NoArtifact
  /\ UNCHANGED << input, output, variant, analyzedTicks,
                  opts, videoRef, isCapturing, readyVisual, whyNot,
                  prevFrameRef, stableCountRef, now, inFlight, captured,
                  rejected, triggers, passRun, resetSinceTrigger >>

\* video.play() resolves: the session starts and startLoop() requests the
\* first animation frame
PlayResolves ==
  /\ pc = "play"
  /\ pc' = "started"
  /\ error' = "null"
  /\ startedAtRef' = now
  /\ rafScheduled' = TRUE
  /\ last' = "started"
  /\ tick' = NoTick
  /\ artifact' = NoArtifact
  /\ UNCHANGED << input, output, variant, analyzedTicks,
                  opts, videoRef, streamRef, cameraLive, isCapturing,
                  readyVisual, whyNot, prevFrameRef, stableCountRef, now,
                  inFlight, captured, rejected, triggers, passRun,
                  resetSinceTrigger >>

\* variant: the catch block sets the error and leaves out cleanup()
StartFailsKeepsStream ==
  /\ pc \in {"getUserMedia", "play"}
  /\ \E name \in {"NotAllowedError", "other"} :
       error' = IF name = "NotAllowedError" THEN "denied" ELSE "initFailed"
  /\ pc' = "failed"
  /\ last' = "startFailed"
  /\ tick' = NoTick
  /\ artifact' = NoArtifact
  /\ UNCHANGED << input, output, variant, analyzedTicks,
                  opts, videoRef, streamRef,
                  cameraLive, rafScheduled, isCapturing, readyVisual, whyNot,
                  prevFrameRef, stableCountRef, startedAtRef, now, inFlight,
                  captured, rejected, triggers, passRun, resetSinceTrigger >>

\* getUserMedia or play() rejects: the catch block sets the error and runs
\* cleanup()
StartFails ==
  /\ pc \in {"getUserMedia", "play"}
  /\ \E name \in {"NotAllowedError", "other"} :
       error' = IF name = "NotAllowedError" THEN "denied" ELSE "initFailed"
  /\ pc' = "failed"
  /\ cleanup
  /\ resetSinceTrigger' = TRUE
  /\ last' = "startFailed"
  /\ tick' = NoTick
  /\ artifact' = NoArtifact
  /\ UNCHANGED << input, output, variant, analyzedTicks,
                  opts, videoRef, isCapturing, whyNot, startedAtRef, now,
                  inFlight, captured, rejected, triggers, passRun >>

\* the component unmounts: the effect's cleanup function runs cleanup() and
\* the video element is detached from videoRef
Unmount ==
  /\ videoRef
  /\ videoRef' = FALSE
  /\ cleanup
  /\ resetSinceTrigger' = TRUE
  /\ last' = "unmount"
  /\ tick' = NoTick
  /\ artifact' = NoArtifact
  /\ UNCHANGED << input, output, variant, analyzedTicks,
                  opts, pc, error, isCapturing, whyNot, startedAtRef, now,
                  inFlight, captured, rejected, triggers, passRun >>

\* performance.now() advances
TimePasses ==
  /\ now + ClockStep <= MaxTime
  /\ now' = now + ClockStep
  /\ last' = "time"
  /\ tick' = NoTick
  /\ artifact' = NoArtifact
  /\ UNCHANGED << input, output, variant, analyzedTicks,
                  opts, pc, videoRef, streamRef, cameraLive, rafScheduled,
                  error, isCapturing, readyVisual, whyNot, prevFrameRef,
                  stableCountRef, startedAtRef, inFlight, captured, rejected,
                  triggers, passRun, resetSinceTrigger >>

\* ------------------------------------------------------------------------
\* The loop: one animation frame
\* ------------------------------------------------------------------------
\* Math.abs(roiVid.w / roiVid.h - GUIDE_RATIO) <= 0.08 in double arithmetic:
\* the quotient within 0.08 of GUIDE_RATIO, except that for the quotient 0.78
\* the difference is 0.08000000000000007 and the comparison is false (for
\* 0.62 it is 0.07999999999999996 and the comparison is true)
ratioOkOf(roiVid) ==
  /\ Abs(100 * roiVid.w - GUIDE_RATIO * roiVid.h) <= 8 * roiVid.h
  /\ 100 * roiVid.w # (GUIDE_RATIO + 8) * roiVid.h

\* H = max(1, round(roiVid.h * scale)), scale = W / roiVid.w
HeightOf(roiVid) == Max(1, Round(roiVid.h * W, roiVid.w))

\* the heights the analysis buffer takes for the layouts and video sizes above
Heights ==
  { HeightOf(guideToVideoRect(l, v.vw, v.vh)) :
      l \in Layouts \ {NoRect}, v \in {u \in VideoSizes : u.vw # 0 /\ u.vh # 0} }

\* analyzeRoi of every frame the loop can be given, computed once
analyzed ==
  [ s \in Scenes, h \in Heights, o \in OptsChoices |->
      analyzeRoi(ImageOf(s, W, h), o) ]

\* variant: without a previous buffer of the same length the motion is 0
motionOfNoSentinel(gray, prev) ==
  IF prev # << >> /\ Len(prev) = Len(gray)
  THEN [num |-> SeqSum([i \in DOMAIN gray |-> Abs(gray[i] - prev[i])]),
        den |-> Len(gray)]
  ELSE [num |-> 0, den |-> 1]

\* variant: the sum of the absolute differences is not divided by the length
motionOfSum(gray, prev) ==
  IF prev # << >> /\ Len(prev) = Len(gray)
  THEN [num |-> SeqSum([i \in DOMAIN gray |-> Abs(gray[i] - prev[i])]),
        den |-> 1]
  ELSE [num |-> 255, den |-> 1]

\* mean absolute difference to the previous buffer, 255 without a previous
\* buffer of the same length
motionOf(gray, prev) ==
  IF prev # << >> /\ Len(prev) = Len(gray)
  THEN [num |-> SeqSum([i \in DOMAIN gray |-> Abs(gray[i] - prev[i])]),
        den |-> Len(gray)]
  ELSE [num |-> 255, den |-> 1]

\* elapsed >= minSecondsBeforeCapture, elapsed = (now - startedAt) / 1000
passTimeOf(o, t, startedAt) ==
  (t - startedAt) * 100 >= Opt(o, "minSecondsBeforeCapture") * 1000

\* the checks of one analyzed frame
checksOf(o, a, motion, roiVid, t, startedAt) ==
  LET edgeMin == Opt(o, "edgeRatioMin")
  IN [ passSharp  |-> AtLeast(a.lapVar, Opt(o, "sharpnessMin")),
       passFill   |-> AtLeast100(a.fillRatio, Opt(o, "fillMin")),
       passMotion |-> motion.num <= Opt(o, "motionMax") * motion.den,
       passEdges  |-> /\ AtLeast100(a.edge.topR, edgeMin)
                      /\ AtLeast100(a.edge.botR, edgeMin)
                      /\ AtLeast100(a.edge.leftR, edgeMin)
                      /\ AtLeast100(a.edge.rightR, edgeMin),
       ratioOk    |-> ratioOkOf(roiVid),
       passTime   |-> passTimeOf(o, t, startedAt) ]

\* variant: the elapsed-time check is left out of the conjunction
allPassWithoutTime(c) ==
  c.passSharp /\ c.passFill /\ c.passMotion /\ c.passEdges /\ c.ratioOk

allPassOf(c) ==
  c.passSharp /\ c.passFill /\ c.passMotion /\ c.passEdges /\ c.ratioOk /\ c.passTime

\* variant: the reason for the sharpness pushed before the one for the time
reasonsOfSharpFirst(c) ==
  LET all == << <<c.passSharp, "focus">>, <<c.passTime, "stabilizing">>,
                <<c.passFill, "dark">>, <<c.passMotion, "motion">>,
                <<c.passEdges, "edges">>, <<c.ratioOk, "ratio">> >>
      failed == SelectSeq(all, LAMBDA r : ~r[1])
  IN [i \in 1..Len(failed) |-> failed[i][2]]

\* the reasons pushed for the failed checks, in the order of the source
reasonsOf(c) ==
  LET all == << <<c.passTime, "stabilizing">>, <<c.passSharp, "focus">>,
                <<c.passFill, "dark">>, <<c.passMotion, "motion">>,
                <<c.passEdges, "edges">>, <<c.ratioOk, "ratio">> >>
      failed == SelectSeq(all, LAMBDA r : ~r[1])
  IN [i \in 1..Len(failed) |-> failed[i][2]]

\* variant: a failing frame keeps the count instead of clearing it
decideKeepsCount(allPass, capturing, count, required) ==
  IF allPass /\ ~capturing
  THEN [count |-> count + 1, start |-> count + 1 >= required]
  ELSE [count |-> count, start |-> FALSE]

\* variant: the capture starts one frame early
decideEarly(allPass, capturing, count, required) ==
  IF allPass /\ ~capturing
  THEN [count |-> count + 1, start |-> count + 2 >= required]
  ELSE [count |-> 0, start |-> FALSE]

\* variant: the capture starts only after the count exceeds the requirement
decideLate(allPass, capturing, count, required) ==
  IF allPass /\ ~capturing
  THEN [count |-> count + 1, start |-> count + 1 > required]
  ELSE [count |-> 0, start |-> FALSE]

\* the decision step: the count after the frame and whether captureAndSend
\* is called
decide(allPass, capturing, count, required) ==
  IF allPass /\ ~capturing
  THEN [count |-> count + 1, start |-> count + 1 >= required]
  ELSE [count |-> 0, start |-> FALSE]

\* the early returns of loop: the frame is rescheduled and nothing else
\* happens
skipped(vs, roiInView) ==
  \/ ~videoRef
  \/ vs.vw = 0 \/ vs.vh = 0
  \/ roiInView = NoRect
  \/ guideToVideoRect(roiInView, vs.vw, vs.vh) = NoRect

\* variant: an early return treated as a failing frame
LoopSkipsAndClears ==
  /\ last' = "skip"
  /\ stableCountRef' = 0
  /\ tick' = NoTick
  /\ artifact' = NoArtifact
  /\ UNCHANGED << input, output, variant, analyzedTicks,
                  opts, pc, videoRef, streamRef, cameraLive, rafScheduled,
                  error, isCapturing, readyVisual, whyNot, prevFrameRef,
                  startedAtRef, now, inFlight, captured, rejected, triggers,
                  passRun, resetSinceTrigger >>

LoopSkips ==
  /\ last' = "skip"
  /\ tick' = NoTick
  /\ artifact' = NoArtifact
  /\ UNCHANGED << input, output, variant, analyzedTicks,
                  opts, pc, videoRef, streamRef, cameraLive, rafScheduled,
                  error, isCapturing, readyVisual, whyNot, prevFrameRef,
                  stableCountRef, startedAtRef, now, inFlight, captured,
                  rejected, triggers, passRun, resetSinceTrigger >>

\* variant: only a passing frame becomes the previous buffer
LoopUpdatesKeepsBuffer(roiVid, scene, a, c, d) ==
  /\ d.start => (Len(inFlight) < MaxInFlight /\ triggers < MaxTriggers)
  /\ prevFrameRef' = IF allPassOf(c) THEN a.gray ELSE prevFrameRef
  /\ readyVisual' = allPassOf(c)
  /\ whyNot' = reasonsOf(c)
  /\ stableCountRef' = d.count
  /\ isCapturing' = IF d.start THEN TRUE ELSE isCapturing
  \* captureAndSend(roiVid): the frame is drawn at once, the rest waits
  /\ inFlight' = IF d.start
                 THEN Append(inFlight, [roi |-> roiVid, frame |-> scene])
                 ELSE inFlight
  /\ triggers' = IF d.start THEN triggers + 1 ELSE triggers
  /\ passRun' = IF allPassOf(c) THEN Min(passRun + 1, consecutiveFrames) ELSE 0
  /\ resetSinceTrigger' = IF d.start THEN FALSE
                          ELSE IF d.count = 0 THEN TRUE
                          ELSE resetSinceTrigger
  /\ last' = IF d.start THEN "trigger" ELSE IF allPassOf(c) THEN "pass" ELSE "fail"
  /\ analyzedTicks' = Min(analyzedTicks + 1, consecutiveFrames + 1)
  /\ tick' = [analyzed |-> TRUE, scene |-> scene, roiVid |-> roiVid,
              height |-> HeightOf(roiVid),
              motion |-> motionOf(a.gray, prevFrameRef), checks |-> c]
  /\ artifact' = NoArtifact
  /\ UNCHANGED << input, output, variant,
                  opts, pc, videoRef, streamRef, cameraLive, rafScheduled,
                  error, startedAtRef, now, captured, rejected >>

\* variant: the frame is drawn after the tick, when the video shows another
\* frame
LoopUpdatesSnapshotLater(roiVid, scene, a, c, d) ==
  /\ d.start => (Len(inFlight) < MaxInFlight /\ triggers < MaxTriggers)
  /\ prevFrameRef' = a.gray
  /\ readyVisual' = allPassOf(c)
  /\ whyNot' = reasonsOf(c)
  /\ stableCountRef' = d.count
  /\ isCapturing' = IF d.start THEN TRUE ELSE isCapturing
  /\ inFlight' = IF d.start
                 THEN Append(inFlight, [roi |-> roiVid,
                                         frame |-> CHOOSE f \in Scenes : f # scene])
                 ELSE inFlight
  /\ triggers' = IF d.start THEN triggers + 1 ELSE triggers
  /\ passRun' = IF allPassOf(c) THEN Min(passRun + 1, consecutiveFrames) ELSE 0
  /\ resetSinceTrigger' = IF d.start THEN FALSE
                          ELSE IF d.count = 0 THEN TRUE
                          ELSE resetSinceTrigger
  /\ last' = IF d.start THEN "trigger" ELSE IF allPassOf(c) THEN "pass" ELSE "fail"
  /\ analyzedTicks' = Min(analyzedTicks + 1, consecutiveFrames + 1)
  /\ tick' = [analyzed |-> TRUE, scene |-> scene, roiVid |-> roiVid,
              height |-> HeightOf(roiVid),
              motion |-> motionOf(a.gray, prevFrameRef), checks |-> c]
  /\ artifact' = NoArtifact
  /\ UNCHANGED << input, output, variant,
                  opts, pc, videoRef, streamRef, cameraLive, rafScheduled,
                  error, startedAtRef, now, captured, rejected >>

\* the state after an analyzed frame, given its region, its analysis a, its
\* checks c and the decision d
LoopUpdates(roiVid, scene, a, c, d) ==
  /\ d.start => (Len(inFlight) < MaxInFlight /\ triggers < MaxTriggers)
  /\ prevFrameRef' = a.gray
  /\ readyVisual' = allPassOf(c)
  /\ whyNot' = reasonsOf(c)
  /\ stableCountRef' = d.count
  /\ isCapturing' = IF d.start THEN TRUE ELSE isCapturing
  \* captureAndSend(roiVid): the frame is drawn at once, the rest waits
  /\ inFlight' = IF d.start
                 THEN Append(inFlight, [roi |-> roiVid, frame |-> scene])
                 ELSE inFlight
  /\ triggers' = IF d.start THEN triggers + 1 ELSE triggers
  /\ passRun' = IF allPassOf(c) THEN Min(passRun + 1, consecutiveFrames) ELSE 0
  /\ resetSinceTrigger' = IF d.start THEN FALSE
                          ELSE IF d.count = 0 THEN TRUE
                          ELSE resetSinceTrigger
  /\ last' = IF d.start THEN "trigger" ELSE IF allPassOf(c) THEN "pass" ELSE "fail"
  /\ analyzedTicks' = Min(analyzedTicks + 1, consecutiveFrames + 1)
  /\ tick' = [analyzed |-> TRUE, scene |-> scene, roiVid |-> roiVid,
              height |-> HeightOf(roiVid),
              motion |-> motionOf(a.gray, prevFrameRef), checks |-> c]
  /\ artifact' = NoArtifact
  /\ UNCHANGED << input, output, variant,
                  opts, pc, videoRef, streamRef, cameraLive, rafScheduled,
                  error, startedAtRef, now, captured, rejected >>

\* the analysis of one frame: region, buffer height, metrics, motion, checks
\* and decision, each computed once
LoopAnalyzes(vs, roiInView, scene) ==
  \E roiVid \in {guideToVideoRect(roiInView, vs.vw, vs.vh)} :
  \E a \in {analyzed[scene, HeightOf(roiVid), opts]} :
  \E c \in {checksOf(opts, a, motionOf(a.gray, prevFrameRef), roiVid, now,
                      startedAtRef)} :
  \E d \in {decide(allPassOf(c), loopIsCapturing, stableCountRef,
                    consecutiveFrames)} :
    LoopUpdates(roiVid, scene, a, c, d)

\* loop: requests the next frame, then returns early or analyzes the frame
Loop ==
  /\ rafScheduled
  /\ \E vs \in VideoSizes, roiInView \in Layouts, scene \in Scenes :
       IF skipped(vs, roiInView)
       THEN LoopSkips
       ELSE LoopAnalyzes(vs, roiInView, scene)

\* ------------------------------------------------------------------------
\* Extraction
\* ------------------------------------------------------------------------
\* variant: the callback given to then(), which a rejection passes by
thenCallback(ok) ==
  IF ok
  THEN /\ isCapturing' = FALSE
       /\ stableCountRef' = 0
       /\ readyVisual' = FALSE
  ELSE UNCHANGED << isCapturing, stableCountRef, readyVisual >>

\* the callback given to finally(): runs whether the promise was fulfilled
\* (ok) or rejected
finallyCallback(ok) ==
  /\ isCapturing' = FALSE
  /\ stableCountRef' = 0
  /\ readyVisual' = FALSE

\* variant: onCaptured is called from the finally callback, so a rejected
\* extraction hands over too
ExtractionSettlesAlwaysHandsOver ==
  \E i \in DOMAIN inFlight, ok \in BOOLEAN :
    /\ inFlight' = [j \in 1..(Len(inFlight) - 1) |->
                      IF j < i THEN inFlight[j] ELSE inFlight[j + 1]]
    /\ captured' = captured + 1
    /\ rejected' = IF ok THEN rejected ELSE rejected + 1
    /\ finallyCallback(ok)
    /\ resetSinceTrigger' = TRUE
    /\ last' = IF ok THEN "captured" ELSE "extractFailed"
    /\ tick' = NoTick
    /\ artifact' = [delivered |-> TRUE, roi |-> inFlight[i].roi,
                    frame |-> inFlight[i].frame]
    /\ UNCHANGED << input, output, variant, analyzedTicks,
                    opts, pc, videoRef, streamRef,
                    cameraLive, rafScheduled, error, whyNot, prevFrameRef,
                    startedAtRef, now, triggers, passRun >>

\* variant: one capture per session, the settlement cancels the pending
\* animation frame
ExtractionSettlesAndStops ==
  \E i \in DOMAIN inFlight, ok \in BOOLEAN :
    /\ inFlight' = [j \in 1..(Len(inFlight) - 1) |->
                      IF j < i THEN inFlight[j] ELSE inFlight[j + 1]]
    /\ captured' = IF ok THEN captured + 1 ELSE captured
    /\ rejected' = IF ok THEN rejected ELSE rejected + 1
    /\ finallyCallback(ok)
    /\ rafScheduled' = FALSE
    /\ resetSinceTrigger' = TRUE
    /\ last' = IF ok THEN "captured" ELSE "extractFailed"
    /\ tick' = NoTick
    /\ artifact' = IF ok
                   THEN [delivered |-> TRUE, roi |-> inFlight[i].roi,
                         frame |-> inFlight[i].frame]
                   ELSE NoArtifact
    /\ UNCHANGED << input, output, variant, analyzedTicks,
                    opts, pc, videoRef, streamRef,
                    cameraLive, error, whyNot, prevFrameRef, startedAtRef, now,
                    triggers, passRun >>

\* the promise of one outstanding captureAndSend settles: fulfilled after
\* onCaptured was called with the blob, or rejected (drawing, encoding or
\* fetching failed); the finally callback runs in both cases
ExtractionSettles ==
  \E i \in DOMAIN inFlight, ok \in BOOLEAN :
    /\ inFlight' = [j \in 1..(Len(inFlight) - 1) |->
                      IF j < i THEN inFlight[j] ELSE inFlight[j + 1]]
    /\ captured' = IF ok THEN captured + 1 ELSE captured
    /\ rejected' = IF ok THEN rejected ELSE rejected + 1
    /\ finallyCallback(ok)
    /\ resetSinceTrigger' = TRUE
    /\ last' = IF ok THEN "captured" ELSE "extractFailed"
    /\ tick' = NoTick
    /\ artifact' = IF ok
                   THEN [delivered |-> TRUE, roi |-> inFlight[i].roi,
                         frame |-> inFlight[i].frame]
                   ELSE NoArtifact
    /\ UNCHANGED << input, output, variant, analyzedTicks,
                    opts, pc, videoRef, streamRef, cameraLive, rafScheduled,
                    error, whyNot, prevFrameRef, startedAtRef, now, triggers,
                    passRun >>

Next ==
  \/ GetUserMediaResolves
  \/ PlayResolves
  \/ StartFails
  \/ Unmount
  \/ TimePasses
  \/ Loop
  \/ ExtractionSettles

Spec == Init /\ [][Next]_vars

\* ------------------------------------------------------------------------
\* The geometry mapper on its own
\* ------------------------------------------------------------------------
\* the guide box that covers the drawn video exactly: x = offsetX,
\* y = offsetY, w = drawnW, h = drawnH of the object-contain mapping
ContainBounds(cW, cH, vw, vh) ==
  LET wFits == cW * vh <= cH * vw
      sn == IF wFits THEN cW ELSE cH
      sd == IF wFits THEN vw ELSE vh
      drawnW == (vw * sn) \div sd
      drawnH == (vh * sn) \div sd
  IN [x |-> (cW - drawnW) \div 2, y |-> (cH - drawnH) \div 2,
      w |-> drawnW, h |-> drawnH, containerW |-> cW, containerH |-> cH]

\* drawnW, drawnH, offsetX and offsetY are whole numbers
ContainBoundsExact(cW, cH, vw, vh) ==
  LET wFits == cW * vh <= cH * vw
      sn == IF wFits THEN cW ELSE cH
      sd == IF wFits THEN vw ELSE vh
  IN /\ (vw * sn) % sd = 0
     /\ (vh * sn) % sd = 0
     /\ (cW - (vw * sn) \div sd) % 2 = 0
     /\ (cH - (vh * sn) \div sd) % 2 = 0

\* sizes of the container element
GeometryContainers ==
  { [w |-> cw, h |-> ch] : cw \in {16, 32, 40}, ch \in {10, 20, 30, 32} }

\* videoWidth / videoHeight: unknown in one or both directions, landscape,
\* portrait
GeometrySources ==
  { [vw |-> 0, vh |-> 0], [vw |-> 16, vh |-> 0], [vw |-> 0, vh |-> 10],
    [vw |-> 16, vh |-> 10], [vw |-> 10, vh |-> 16] }

\* what computeRoiRect can return for a container: nothing, a guide box at
\* the left or top edge, inside, or at the right or bottom edge, of no size
\* or reaching beyond the container
GuidesIn(c) ==
  { NoRect } \cup
  { [x |-> x, y |-> y, w |-> w, h |-> h, containerW |-> c.w, containerH |-> c.h] :
      x \in {0, 9, c.w}, y \in {0, c.h}, w \in {0, 23}, h \in {0, 20} }

\* the arguments the mapper is applied to
GeometryInputs ==
  { [roi |-> g, vw |-> v.vw, vh |-> v.vh] :
      g \in UNION { GuidesIn(c) : c \in GeometryContainers },
      v \in GeometrySources }
  \cup
  { [roi |-> ContainBounds(c.w, c.h, v.vw, v.vh), vw |-> v.vw, vh |-> v.vh] :
      <<c, v>> \in { p \in GeometryContainers \X GeometrySources :
                       /\ p[2].vw # 0 /\ p[2].vh # 0
                       /\ ContainBoundsExact(p[1].w, p[1].h, p[2].vw, p[2].vh) } }

InitGeometry ==
  /\ InitComponent
  /\ input \in GeometryInputs
  /\ output = Pending
  /\ NoVariant

\* the first steps of loop: the video size is read, computeRoiRect and
\* guideToVideoRect are called, and loop returns early or goes on
MapGuide ==
  /\ output = Pending
  /\ output' =
       [ region |-> IF input.roi = NoRect THEN NoRect
                    ELSE guideToVideoRect(input.roi, input.vw, input.vh),
         skips |-> skipped([vw |-> input.vw, vh |-> input.vh], input.roi) ]
  /\ UNCHANGED << component, input, variant >>

NextGeometry == MapGuide

SpecGeometry == InitGeometry /\ [][NextGeometry]_vars

\* ------------------------------------------------------------------------
\* The pass flags on their own
\* ------------------------------------------------------------------------
\* the opts of a caller: nothing set, every threshold set, some set
GateOpts ==
  { << >>,
    [ sharpnessMin |-> 40, fillMin |-> 20, motionMax |-> 5, edgeRatioMin |-> 15,
      minSecondsBeforeCapture |-> 50 ],
    [ sharpnessMin |-> 40, edgeRatioMin |-> 15 ] }

\* values of one edge ratio below, at and above the thresholds
EdgeValues ==
  { [num |-> 9, den |-> 100], [num |-> 10, den |-> 100], [num |-> 15, den |-> 100] }

\* what analyzeRoi can return, around the thresholds
GateMetrics ==
  { [ lapVar |-> [num |-> l, den |-> 1],
      fillRatio |-> [num |-> f, den |-> 100],
      edge |-> [topR |-> et, botR |-> eb, leftR |-> el, rightR |-> er] ] :
      l \in {34, 35, 40}, f \in {9, 10, 20},
      et \in EdgeValues, eb \in EdgeValues, el \in EdgeValues, er \in EdgeValues }

\* regions of ratio 0.6, 0.62, 0.7, 0.78 and 0.8
GateRegions ==
  { [x |-> 0, y |-> 0, w |-> 3, h |-> 5], [x |-> 0, y |-> 0, w |-> 31, h |-> 50],
    [x |-> 0, y |-> 0, w |-> 7, h |-> 10], [x |-> 0, y |-> 0, w |-> 39, h |-> 50],
    [x |-> 0, y |-> 0, w |-> 4, h |-> 5] }

\* the values the pass flags are computed from
GateInputs ==
  { [a |-> a, motion |-> [num |-> m, den |-> 1], roiVid |-> r, t |-> t,
     startedAt |-> 250] :
      a \in GateMetrics, m \in {5, 10, 11, 255}, r \in GateRegions,
      t \in {749, 750, 1249, 1250} }

InitGate ==
  /\ opts \in GateOpts
  /\ InitRefs
  /\ input \in GateInputs
  /\ output = Pending
  /\ NoVariant

\* the pass flags and allPass of one analyzed frame
ApplyGate ==
  /\ output = Pending
  /\ \E c \in {checksOf(opts, input.a, input.motion, input.roiVid, input.t,
                          input.startedAt)} :
       output' = [checks |-> c, allPass |-> allPassOf(c)]
  /\ UNCHANGED << component, input, variant >>

NextGate == ApplyGate

SpecGate == InitGate /\ [][NextGate]_vars

\* ------------------------------------------------------------------------
\* analyzeRoi on its own
\* ------------------------------------------------------------------------
\* longest side of the buffers analyzeRoi is applied to
MaxSide == 4

\* the luma of the pixel (x, y) of a buffer: all samples equal (black, at the
\* brightness floor, just above it, white), the page texture, or one sample
\* that differs from the others
PatternLuma(p, x, y, width) ==
  CASE p.kind = "uniform" -> p.v
    [] p.kind = "page"    -> IF (x + 2 * y) % 3 = 0 THEN 72 ELSE 48
    [] p.kind = "spot"    -> IF y * width + x = p.at THEN p.v ELSE p.bg

PatternsOf(width, height) ==
  { [kind |-> "uniform", v |-> v] : v \in {0, 60, 61, 255} }
  \cup { [kind |-> "page"] }
  \cup { [kind |-> "spot", at |-> i, v |-> 72, bg |-> 48] :
            i \in 0..(width * height - 1) }
  \cup { [kind |-> "spot", at |-> i, v |-> 61, bg |-> 60] :
            i \in 0..(width * height - 1) }

\* a pixel of luma v: R = G = B = v, for which the weighted sum is v in
\* double arithmetic too, except that for 61 it is 60.99999999999999, so
\* there the pixel (61, 61, 62) of sum 61.114 is taken
PixelOfLuma(v) == IF v = 61 THEN <<61, 61, 62>> ELSE <<v, v, v>>

\* the ImageData of a pattern
PatternImage(p, width, height) ==
  [ width |-> width, height |-> height,
    data |-> [i \in 1..(width * height) |->
                PixelOfLuma(PatternLuma(p, (i - 1) % width,
                                        (i - 1) \div width, width))] ]

\* the ImageData analyzeRoi is applied to
MetricInputs ==
  UNION { { PatternImage(p, sz[1], sz[2]) : p \in PatternsOf(sz[1], sz[2]) } :
            sz \in (1..MaxSide) \X (1..MaxSide) }

\* the opts of a caller: edgeBandFrac not set, or set within (0, 1)
MetricOpts ==
  { << >>, [edgeBandFrac |-> 1], [edgeBandFrac |-> 50], [edgeBandFrac |-> 99] }

InitMetrics ==
  /\ opts \in MetricOpts
  /\ InitRefs
  /\ input \in MetricInputs
  /\ output = Pending
  /\ NoVariant

\* const { lapVar, fillRatio, edge, gray } = analyzeRoi(img)
ApplyAnalyzeRoi ==
  /\ output = Pending
  /\ output' = analyzeRoi(input, opts)
  /\ UNCHANGED << component, input, variant >>

NextMetrics == ApplyAnalyzeRoi

SpecMetrics == InitMetrics /\ [][NextMetrics]_vars

\* ------------------------------------------------------------------------
\* The start/stop-button variant
\* ------------------------------------------------------------------------
\* the defaults of the variant
DEFAULT_OPTS_VARIANT ==
  [ consecutiveFrames       |-> 8,
    sharpnessMin            |-> 35,
    fillMin                 |-> 12,
    motionMax               |-> 8,
    edgeBandFrac            |-> 10,
    edgeRatioMin            |-> 12,
    minSecondsBeforeCapture |-> 120 ]

OptVariant(o, f) == IF f \in DOMAIN o THEN o[f] ELSE DEFAULT_OPTS_VARIANT[f]

\* the strip [sx, sx+sw) x [sy, sy+sh): the pixels with sobel > 0.25 * maxMag
countAboveQuarter(sobel, w, sx, sy, sw, sh, maxMag) ==
  Cardinality({ p \in (sx..(sx + sw - 1)) \X (sy..(sy + sh - 1)) :
                  /\ p[2] * w + p[1] + 1 \in DOMAIN sobel
                  /\ 4 * sobel[p[2] * w + p[1] + 1] > maxMag })

\* analyzeRoi of the variant: the same Laplacian variance and fill ratio, the
\* edge threshold a quarter of the largest gradient magnitude (at least 1)
analyzeRoiVariant(imgData, o) ==
  LET width == imgData.width
      height == imgData.height
      gray == GrayOf(imgData)
      sobel == SobelMap(gray, width, height)
      maxMag == CHOOSE m \in {1} \cup {sobel[i] : i \in DOMAIN sobel} :
                  /\ m >= 1
                  /\ \A i \in DOMAIN sobel : m >= sobel[i]
      band == Max(1, Round(OptVariant(o, "edgeBandFrac") * Min(width, height), 100))
      topCount == countAboveQuarter(sobel, width, 0, 0, width, band, maxMag)
      botCount == countAboveQuarter(sobel, width, 0, height - band, width, band, maxMag)
      leftCount == countAboveQuarter(sobel, width, 0, 0, band, height, maxMag)
      rightCount == countAboveQuarter(sobel, width, width - band, 0, band, height, maxMag)
  IN [ sharp |-> LapVar(gray, width, height),
       fill |-> FillRatio(gray),
       edgeRatios |-> [ topR |-> [num |-> topCount, den |-> width * band],
                        botR |-> [num |-> botCount, den |-> width * band],
                        leftR |-> [num |-> leftCount, den |-> height * band],
                        rightR |-> [num |-> rightCount, den |-> height * band] ] ]

\* the checks of one analyzed frame of the variant
checksOfVariant(o, a, motion, roiVid, t, startedAt) ==
  LET edgeMin == OptVariant(o, "edgeRatioMin")
  IN [ passSharp  |-> AtLeast(a.sharp, OptVariant(o, "sharpnessMin")),
       passFill   |-> AtLeast100(a.fill, OptVariant(o, "fillMin")),
       passMotion |-> motion.num <= OptVariant(o, "motionMax") * motion.den,
       passEdges  |-> /\ AtLeast100(a.edgeRatios.topR, edgeMin)
                      /\ AtLeast100(a.edgeRatios.botR, edgeMin)
                      /\ AtLeast100(a.edgeRatios.leftR, edgeMin)
                      /\ AtLeast100(a.edgeRatios.rightR, edgeMin),
       ratioOk    |-> ratioOkOf(roiVid),
       passTime   |-> (t - startedAt) * 100
                        >= OptVariant(o, "minSecondsBeforeCapture") * 1000 ]

\* the state after the first render of the variant: no effect starts the
\* camera, the start button is shown
InitVariant ==
  /\ opts \in OptsChoices
  /\ pc = "idle"
  /\ videoRef = TRUE
  /\ streamRef = "null"
  /\ cameraLive = FALSE
  /\ rafScheduled = FALSE
  /\ error = "null"
  /\ isCapturing = FALSE
  /\ readyVisual = FALSE
  /\ whyNot = << >>
  /\ prevFrameRef = << >>
  /\ stableCountRef = 0
  /\ startedAtRef = 0
  /\ now = 0
  /\ inFlight = << >>
  /\ captured = 0
  /\ rejected = 0
  /\ triggers = 0
  /\ passRun = 0
  /\ resetSinceTrigger = FALSE
  /\ analyzedTicks = 0
  /\ last = "mount"
  /\ tick = NoTick
  /\ artifact = NoArtifact
  /\ input = << >>
  /\ output = Pending
  /\ active = FALSE
  /\ loopActive = FALSE

\* stopAll: cancels the requested frame, stops the tracks, clears the refs,
\* setActive(false), setReadyVisual(false)
stopAll ==
  /\ rafScheduled' = FALSE
  /\ cameraLive' = IF streamRef = "stream" THEN FALSE ELSE cameraLive
  /\ streamRef' = "null"
  /\ prevFrameRef' = << >>
  /\ stableCountRef' = 0
  /\ active' = FALSE
  /\ readyVisual' = FALSE

\* the end of startCamera's try block: setError(null), setActive(true),
\* startedAtRef.current = performance.now(), startLoop(). A state update of
\* an unmounted component is dropped.
startCameraFinishes ==
  /\ pc' = "idle"
  /\ error' = "null"
  /\ active' = IF videoRef THEN TRUE ELSE active
  /\ startedAtRef' = now
  /\ rafScheduled' = TRUE

\* the start button, rendered while active is false, is clicked (one call of
\* startCamera at a time): startCamera awaits getUserMedia. The startLoop it
\* will call is the one of the render that drew the button, and the loop
\* that startLoop defines reads the active of that render.
ClickStart ==
  /\ videoRef
  /\ ~active
  /\ pc = "idle"
  /\ pc' = "getUserMedia"
  /\ loopActive' = active
  /\ last' = "clickStart"
  /\ tick' = NoTick
  /\ artifact' = NoArtifact
  /\ UNCHANGED << input, output, active, analyzedTicks,
                  opts, videoRef, streamRef, cameraLive, rafScheduled, error,
                  isCapturing, readyVisual, whyNot, prevFrameRef,
                  stableCountRef, startedAtRef, now, inFlight, captured,
                  rejected, triggers, passRun, resetSinceTrigger >>

\* getUserMedia resolves in startCamera: the stream is kept; with a video
\* element play() is awaited, without one the try block finishes
StartCameraAcquires ==
  /\ pc = "getUserMedia"
  /\ streamRef' = "stream"
  /\ cameraLive' = TRUE
  /\ IF videoRef
     THEN /\ pc' = "play"
          /\ UNCHANGED << error, active, startedAtRef, rafScheduled >>
     ELSE startCameraFinishes
  /\ last' = "acquired"
  /\ tick' = NoTick
  /\ artifact' = NoArtifact
  /\ UNCHANGED << input, output, loopActive, analyzedTicks,
                  opts, videoRef, isCapturing, readyVisual, whyNot,
                  prevFrameRef, stableCountRef, now, inFlight, captured,
                  rejected, triggers, passRun, resetSinceTrigger >>

\* video.play() resolves in startCamera
StartCameraPlays ==
  /\ pc = "play"
  /\ startCameraFinishes
  /\ last' = "started"
  /\ tick' = NoTick
  /\ artifact' = NoArtifact
  /\ UNCHANGED << input, output, loopActive, analyzedTicks,
                  opts, videoRef, streamRef, cameraLive, isCapturing,
                  readyVisual, whyNot, prevFrameRef, stableCountRef, now,
                  inFlight, captured, rejected, triggers, passRun,
                  resetSinceTrigger >>

\* getUserMedia or play() rejects in startCamera: setError, stopAll()
StartCameraFails ==
  /\ pc \in {"getUserMedia", "play"}
  /\ \E name \in {"NotAllowedError", "other"} :
       error' = IF name = "NotAllowedError" THEN "denied" ELSE "initFailed"
  /\ pc' = "idle"
  /\ stopAll
  /\ resetSinceTrigger' = TRUE
  /\ last' = "startFailed"
  /\ tick' = NoTick
  /\ artifact' = NoArtifact
  /\ UNCHANGED << input, output, loopActive, analyzedTicks,
                  opts, videoRef, isCapturing, whyNot, startedAtRef, now,
                  inFlight, captured, rejected, triggers, passRun >>

\* the stop button, rendered while active is true, is clicked: stopAll()
ClickStop ==
  /\ videoRef
  /\ active
  /\ stopAll
  /\ resetSinceTrigger' = TRUE
  /\ last' = "clickStop"
  /\ tick' = NoTick
  /\ artifact' = NoArtifact
  /\ UNCHANGED << input, output, loopActive, analyzedTicks,
                  opts, pc, videoRef, error, isCapturing, whyNot,
                  startedAtRef, now, inFlight, captured, rejected, triggers,
                  passRun >>

\* the variant unmounts: the effect's cleanup function runs stopAll() and the
\* video element is detached from videoRef
UnmountVariant ==
  /\ videoRef
  /\ videoRef' = FALSE
  /\ stopAll
  /\ resetSinceTrigger' = TRUE
  /\ last' = "unmount"
  /\ tick' = NoTick
  /\ artifact' = NoArtifact
  /\ UNCHANGED << input, output, loopActive, analyzedTicks,
                  opts, pc, error, isCapturing, whyNot, startedAtRef, now,
                  inFlight, captured, rejected, triggers, passRun >>

\* a tick of the variant that returns early; measurable: the video element,
\* its size and the guide could all be measured
LoopVariantSkips(measurable) ==
  /\ last' = "skip"
  /\ tick' = [analyzed |-> FALSE, measurable |-> measurable]
  /\ artifact' = NoArtifact
  /\ UNCHANGED << input, output, variant, analyzedTicks,
                  opts, pc, videoRef, streamRef, cameraLive, rafScheduled,
                  error, isCapturing, readyVisual, whyNot, prevFrameRef,
                  stableCountRef, startedAtRef, now, inFlight, captured,
                  rejected, triggers, passRun, resetSinceTrigger >>

\* a tick of the variant that analyzes the frame: metrics, motion, checks,
\* setReadyVisual(allPass) and the decision step
LoopVariantAnalyzes(vs, roiInView, scene) ==
  \E roiVid \in {guideToVideoRect(roiInView, vs.vw, vs.vh)} :
  \E img \in {ImageOf(scene, W, HeightOf(roiVid))} :
  \E c \in {checksOfVariant(opts, analyzeRoiVariant(img, opts),
                             motionOf(GrayOf(img), prevFrameRef), roiVid, now,
                             startedAtRef)} :
  \E d \in {decide(allPassOf(c), loopIsCapturing, stableCountRef,
                    OptVariant(opts, "consecutiveFrames"))} :
    /\ d.start => (Len(inFlight) < MaxInFlight /\ triggers < MaxTriggers)
    /\ prevFrameRef' = GrayOf(img)
    /\ readyVisual' = allPassOf(c)
    /\ stableCountRef' = d.count
    /\ isCapturing' = IF d.start THEN TRUE ELSE isCapturing
    /\ inFlight' = IF d.start
                   THEN Append(inFlight, [roi |-> roiVid, frame |-> scene])
                   ELSE inFlight
    /\ triggers' = IF d.start THEN triggers + 1 ELSE triggers
    /\ passRun' = IF allPassOf(c)
                  THEN Min(passRun + 1, OptVariant(opts, "consecutiveFrames"))
                  ELSE 0
    /\ resetSinceTrigger' = IF d.start THEN FALSE
                            ELSE IF d.count = 0 THEN TRUE
                            ELSE resetSinceTrigger
    /\ last' = IF d.start THEN "trigger" ELSE IF allPassOf(c) THEN "pass" ELSE "fail"
    /\ analyzedTicks' = Min(analyzedTicks + 1,
                            OptVariant(opts, "consecutiveFrames") + 1)
    /\ tick' = [analyzed |-> TRUE, measurable |-> TRUE, scene |-> scene,
                roiVid |-> roiVid, height |-> HeightOf(roiVid),
                motion |-> motionOf(GrayOf(img), prevFrameRef), checks |-> c]
    /\ artifact' = NoArtifact
    /\ UNCHANGED << input, output, variant,
                    opts, pc, videoRef, streamRef, cameraLive, rafScheduled,
                    error, whyNot, startedAtRef, now, captured, rejected >>

\* loop of the variant: requests the next frame, returns early when the
\* active it reads is false or something cannot be measured, else analyzes
LoopVariant ==
  /\ rafScheduled
  /\ \E vs \in VideoSizes, roiInView \in Layouts, scene \in Scenes :
       IF ~loopActive \/ skipped(vs, roiInView)
       THEN LoopVariantSkips(~skipped(vs, roiInView))
       ELSE LoopVariantAnalyzes(vs, roiInView, scene)

NextVariant ==
  \/ ClickStart
  \/ StartCameraAcquires
  \/ StartCameraPlays
  \/ StartCameraFails
  \/ ClickStop
  \/ UnmountVariant
  \/ TimePasses
  \/ LoopVariant

SpecVariant == InitVariant /\ [][NextVariant]_vars

\* ------------------------------------------------------------------------
\* Properties
\* ------------------------------------------------------------------------
\* steps of the loop that analyzed a frame
Analyzed == last' \in {"fail", "pass", "trigger"}
\* steps of the loop that called captureAndSend
Triggered == triggers' = triggers + 1

\* C1: at most one extraction is outstanding at any time.
C1_OneExtractionOutstanding == Len(inFlight) <= 1

\* C2: between two successive triggers the count was set to 0, and the later
\* trigger fires with the count at the required number.
C2_ResetBetweenTriggers ==
  [][(Triggered /\ triggers >= 1) =>
       (resetSinceTrigger /\ stableCountRef' = consecutiveFrames)]_vars

\* C3: the count never exceeds the required number of frames.
C3_CountAtMostRequired == stableCountRef <= consecutiveFrames

\* C4: a capture is triggered only by an analyzed frame that ends a run of at
\* least the required number of analyzed passing frames in a row.
C4_TriggerEndsPassingRun ==
  [][Triggered => (last' = "trigger" /\ passRun' >= consecutiveFrames)]_vars

\* C4: a trigger for three required frames, reached after a failing frame
\* had cleared an earlier run.
C4_Witness ==
  /\ last = "trigger"
  /\ consecutiveFrames = 3
  /\ passRun = 3
  /\ stableCountRef = 3

\* C5: an analyzed frame that fails leaves the count at 0.
C5_FailClearsCount == [][last' = "fail" => stableCountRef' = 0]_vars

\* C5: a failing frame analyzed while an extraction is outstanding.
C5_Witness ==
  /\ last = "fail"
  /\ inFlight # << >>
  /\ stableCountRef = 0

\* C6: a frame that returns early changes neither the count, the previous
\* buffer, the capturing flag nor the diagnostics, and starts no extraction.
C6_SkipChangesNothing ==
  [][last' = "skip" =>
       UNCHANGED << stableCountRef, prevFrameRef, isCapturing, readyVisual,
                    whyNot, inFlight, triggers >>]_vars

\* C6: an early return in the middle of a passing run.
C6_Witness ==
  /\ last = "skip"
  /\ stableCountRef > 0
  /\ prevFrameRef # << >>

\* C7: a frame analyzed before minSecondsBeforeCapture have elapsed starts no
\* capture and leaves the count at 0.
C7_NoCaptureDuringWarmUp ==
  [][(Analyzed /\ ~passTimeOf(opts, now, startedAtRef)) =>
       (stableCountRef' = 0 /\ ~Triggered /\ inFlight' = inFlight)]_vars

\* C7: a frame during warm-up on which every other check passed.
C7_Witness ==
  /\ last = "fail"
  /\ whyNot = << "stabilizing" >>
  /\ ~passTimeOf(opts, now, startedAtRef)
  /\ stableCountRef = 0

\* C8 as stated: counting from 0, the frame that completes the required
\* number triggers the capture, hands over its artifact and leaves the
\* count at 0.
C8_CountZeroAfterTrigger ==
  [][(Analyzed /\ last' # "fail") =>
       /\ Triggered <=> stableCountRef + 1 = consecutiveFrames
       /\ Triggered => (stableCountRef' = 0 /\ captured' = captured + 1)]_vars

\* C8 amended: every passing analyzed frame adds one to the count and calls
\* captureAndSend exactly when the count reaches the required number, so
\* counting from 0 the capture starts on frame number consecutiveFrames and
\* not earlier; after that frame the count is the number reached, not 0, and
\* nothing has been handed over; the count becomes 0 and one artifact is
\* handed over when the extraction is fulfilled.
C8_TriggerOnLastFrame ==
  /\ [][(Analyzed /\ last' # "fail") =>
          /\ stableCountRef' = stableCountRef + 1
          /\ Triggered <=> stableCountRef' >= consecutiveFrames
          /\ captured' = captured
          /\ Triggered => Len(inFlight') = Len(inFlight) + 1]_vars
  /\ [][last' = "captured" =>
          /\ captured' = captured + 1
          /\ Len(inFlight') = Len(inFlight) - 1
          /\ stableCountRef' = 0]_vars

\* C8: the first capture of a session has just been triggered: one
\* extraction outstanding, the count at the required number.
C8_Witness ==
  /\ last = "trigger"
  /\ triggers = 1
  /\ Len(inFlight) = 1
  /\ stableCountRef = consecutiveFrames
  /\ captured = 0

\* C9: a rejected extraction hands over nothing, clears the capturing flag
\* and the count and leaves the loop scheduled; afterwards a passing run of
\* the required length triggers again.
C9_FailureRecovers ==
  /\ [][last' = "extractFailed" =>
          /\ captured' = captured
          /\ isCapturing' = FALSE
          /\ stableCountRef' = 0
          /\ rafScheduled' = rafScheduled]_vars
  /\ [][(Analyzed /\ last' # "fail" /\ rejected > 0
          /\ stableCountRef + 1 >= consecutiveFrames) => Triggered]_vars

\* C9: a capture triggered after the only earlier extraction was rejected.
C9_Witness ==
  /\ last = "trigger"
  /\ triggers = 2
  /\ rejected = 1
  /\ captured = 0
  /\ Len(inFlight) = 1
  /\ rafScheduled

\* C10: a rejected extraction is reported as an error.
C10_FailureIsReported == rejected > 0 => error # "null"

\* C11: after the component was unmounted no artifact is handed to
\* onCaptured, also not by an extraction that was outstanding at the unmount.
C11_NoDeliveryAfterStop == [][~videoRef => captured' = captured]_vars

\* C12: once the component is unmounted the camera is released, no stream is
\* held, the previous buffer is absent, the count is 0 and no frame is
\* analyzed, whatever the order of the unmount, the camera acquisition and a
\* pending animation frame.
C12_StoppedStaysReleased ==
  ~videoRef =>
    /\ ~cameraLive
    /\ streamRef = "null"
    /\ prevFrameRef = << >>
    /\ stableCountRef = 0
    /\ last \notin {"fail", "pass", "trigger"}

\* C13: when getUserMedia or play() rejects, an error is set, the stream
\* acquired so far is stopped and dropped, no animation frame is pending, and
\* in that session no frame was or will be analyzed and no capture triggered.
C13_StartFailureEndsSession ==
  /\ [][last' = "startFailed" =>
          (pc' = "failed" /\ error' \in {"denied", "initFailed"})]_vars
  /\ [](pc = "failed" =>
          /\ error \in {"denied", "initFailed"}
          /\ ~cameraLive
          /\ streamRef = "null"
          /\ ~rafScheduled
          /\ analyzedTicks = 0
          /\ triggers = 0
          /\ inFlight = << >>)

\* C13: the session failed to start and time went on afterwards.
C13_Witness ==
  /\ pc = "failed"
  /\ error = "initFailed"
  /\ last = "time"
  /\ ~cameraLive

\* C14: every capture triggered is either outstanding, rejected or handed
\* over, so the artifacts handed over never exceed the triggers; an extraction
\* that is fulfilled hands over exactly one artifact and nothing else does.
C14_OneArtifactPerTrigger ==
  /\ [](captured + rejected + Len(inFlight) = triggers)
  /\ [][last' = "captured" =>
          (captured' = captured + 1 /\ rejected' = rejected)]_vars
  /\ [][captured' # captured =>
          (last' = "captured" /\ Len(inFlight') = Len(inFlight) - 1)]_vars

\* C14: two captures were triggered and both were handed over.
C14_Witness ==
  /\ triggers = 2
  /\ captured = 2
  /\ inFlight = << >>
  /\ last = "captured"

\* C18: the settlement of an extraction, fulfilled or rejected, leaves the
\* count at 0 and the capturing flag cleared with the loop still scheduled;
\* afterwards the passing frame that brings the count to the required number
\* triggers a further capture; while the session runs an animation frame is
\* always pending, so there is no state the loop cannot leave.
C18_CapturesAgainAfterCompletion ==
  /\ [][last' \in {"captured", "extractFailed"} =>
          /\ stableCountRef' = 0
          /\ isCapturing' = FALSE
          /\ rafScheduled' = rafScheduled]_vars
  /\ [][(Analyzed /\ last' # "fail" /\ captured + rejected > 0) =>
          /\ stableCountRef' = stableCountRef + 1
          /\ stableCountRef' >= consecutiveFrames => Triggered]_vars
  /\ []((pc = "started" /\ videoRef) => rafScheduled)

\* C18: a second capture triggered by a full run of passing frames counted
\* from 0 after the first extraction was fulfilled.
C18_Witness ==
  /\ last = "trigger"
  /\ triggers = 2
  /\ captured = 1
  /\ rejected = 0
  /\ Len(inFlight) = 1
  /\ stableCountRef = consecutiveFrames
  /\ rafScheduled

\* C19: an analyzed frame without a previous buffer of the same length (the
\* first analyzed frame, or a frame whose buffer height changed) has motion
\* 255, fails on motion, leaves the count at 0 and starts no capture; hence a
\* capture is triggered by analyzed frame number consecutiveFrames + 1 of the
\* session at the earliest.
C19_FirstFrameFailsOnMotion ==
  /\ [][(Analyzed /\ (prevFrameRef = << >>
                        \/ Len(prevFrameRef) # Len(prevFrameRef'))) =>
          /\ motionOf(prevFrameRef', prevFrameRef) = [num |-> 255, den |-> 1]
          /\ last' = "fail"
          /\ \E i \in DOMAIN whyNot' : whyNot'[i] = "motion"
          /\ stableCountRef' = 0
          /\ ~Triggered]_vars
  /\ [][Triggered => analyzedTicks' >= consecutiveFrames + 1]_vars

\* C19: the first analyzed frame of a session failed on motion alone.
C19_Witness ==
  /\ analyzedTicks = 1
  /\ last = "fail"
  /\ whyNot = << "motion" >>
  /\ stableCountRef = 0
  /\ triggers = 0

\* the mapper was applied to a measured guide box and returned a region
Mapped == output # Pending /\ input.roi # NoRect /\ output.region # NoRect

\* C15: every region the mapper returns lies within the source frame and is
\* at least one pixel wide and high.
C15_RegionWithinSource ==
  Mapped =>
    /\ 0 <= output.region.x
    /\ 0 <= output.region.y
    /\ output.region.x + output.region.w <= input.vw
    /\ output.region.y + output.region.h <= input.vh
    /\ output.region.w >= 1
    /\ output.region.h >= 1

\* the guide box is the drawn video: the contain-scaled, centered bounds
GuideIsContainBounds ==
  /\ input.roi # NoRect
  /\ input.vw # 0 /\ input.vh # 0
  /\ ContainBoundsExact(input.roi.containerW, input.roi.containerH,
                        input.vw, input.vh)
  /\ input.roi = ContainBounds(input.roi.containerW, input.roi.containerH,
                               input.vw, input.vh)

\* C16: a guide box equal to the contain-scaled, centered bounds of the video
\* in its container maps to the full source rectangle.
C16_ContainBoundsMapToFullFrame ==
  (output # Pending /\ GuideIsContainBounds) =>
    output.region = [x |-> 0, y |-> 0, w |-> input.vw, h |-> input.vh]

\* C16: a letterboxed and a pillarboxed video, each mapped to the full frame.
C16_Witness ==
  /\ output # Pending
  /\ GuideIsContainBounds
  /\ input.roi.x > 0 \/ input.roi.y > 0
  /\ output.region = [x |-> 0, y |-> 0, w |-> input.vw, h |-> input.vh]

\* C17: without a guide box or a container that can be measured (missing, or
\* of no size), or with a source width or height of 0, the mapper returns no
\* region and the frame is skipped.
C17_UnmeasurableIsSkipped ==
  (/\ output # Pending
   /\ \/ input.roi = NoRect
      \/ input.vw = 0 \/ input.vh = 0
      \/ input.roi.w = 0 \/ input.roi.h = 0
      \/ input.roi.containerW = 0 \/ input.roi.containerH = 0) =>
    (output.region = NoRect /\ output.skips)

\* C20: allPass is true exactly when sharpness >= sharpnessMin, fill ratio
\* >= fillMin, motion <= motionMax, every edge ratio >= edgeRatioMin, the
\* ratio of the region is within 0.08 of 0.70 and the elapsed seconds are
\* >= minSecondsBeforeCapture, every comparison inclusive at its threshold
\* and the default taken for an option that is not set.
C20_AllPassIsInclusiveConjunction ==
  output # Pending =>
    LET thr(f) == IF f \in DOMAIN opts THEN opts[f] ELSE DEFAULT_OPTS[f]
        a == input.a
        r == input.roiVid
    IN output.allPass <=>
         /\ a.lapVar.num >= thr("sharpnessMin") * a.lapVar.den
         /\ 100 * a.fillRatio.num >= thr("fillMin") * a.fillRatio.den
         /\ input.motion.num <= thr("motionMax") * input.motion.den
         /\ \A e \in {a.edge.topR, a.edge.botR, a.edge.leftR, a.edge.rightR} :
              100 * e.num >= thr("edgeRatioMin") * e.den
         /\ 100 * r.w >= (GUIDE_RATIO - 8) * r.h
         /\ 100 * r.w <= (GUIDE_RATIO + 8) * r.h
         /\ (input.t - input.startedAt) * 100
              >= thr("minSecondsBeforeCapture") * 1000

\* the place of a reason in the fixed order elapsed, sharpness, fill, motion,
\* edges, aspect
RankOf(r) ==
  CASE r = "stabilizing" -> 1
    [] r = "focus"       -> 2
    [] r = "dark"        -> 3
    [] r = "motion"      -> 4
    [] r = "edges"       -> 5
    [] r = "ratio"       -> 6

\* C21: after an analyzed frame the diagnostics list the reason of a check
\* exactly if that check failed, in the order elapsed, sharpness, fill,
\* motion, edges, aspect; the list is empty exactly if all checks passed; the
\* count and the start of a capture follow from the checks alone.
C21_DiagnosticsFollowChecks ==
  [][Analyzed =>
       LET c == tick'.checks
           listed(r) == \E i \in DOMAIN whyNot' : whyNot'[i] = r
           all == /\ c.passTime /\ c.passSharp /\ c.passFill
                  /\ c.passMotion /\ c.passEdges /\ c.ratioOk
       IN /\ listed("stabilizing") <=> ~c.passTime
          /\ listed("focus") <=> ~c.passSharp
          /\ listed("dark") <=> ~c.passFill
          /\ listed("motion") <=> ~c.passMotion
          /\ listed("edges") <=> ~c.passEdges
          /\ listed("ratio") <=> ~c.ratioOk
          /\ \A i, j \in DOMAIN whyNot' :
               i < j => RankOf(whyNot'[i]) < RankOf(whyNot'[j])
          /\ (whyNot' = << >>) <=> all
          /\ readyVisual' = all
          /\ stableCountRef' = IF all THEN stableCountRef + 1 ELSE 0
          /\ Triggered <=> (all /\ stableCountRef + 1 >= consecutiveFrames)]_vars

\* C21: a frame that failed every check, with all six reasons listed.
C21_Witness ==
  /\ last = "fail"
  /\ tick # NoTick
  /\ whyNot = << "stabilizing", "focus", "dark", "motion", "edges", "ratio" >>
  /\ stableCountRef = 0

\* the luma buffer of the frame that the step taken last analyzed
GrayOfTick(t) == GrayOf(ImageOf(t.scene, W, t.height))

\* C22: after every analyzed frame, passing or failing, with or without an
\* extraction outstanding, the previous buffer is the luma buffer of that
\* frame, and the motion of a frame is measured against the buffer the last
\* analyzed frame left; the previous buffer is absent before the first
\* analyzed frame and after the session is stopped.
C22_PreviousBufferIsLastFrame ==
  /\ [][Analyzed =>
          /\ prevFrameRef' = GrayOfTick(tick')
          /\ tick'.motion = motionOf(GrayOfTick(tick'), prevFrameRef)]_vars
  /\ [][last' \in {"unmount", "startFailed"} => prevFrameRef' = << >>]_vars
  /\ []((analyzedTicks = 0 \/ ~videoRef) => prevFrameRef = << >>)

\* C22: a failing frame analyzed while an extraction is outstanding became
\* the previous buffer.
C22_Witness ==
  /\ last = "fail"
  /\ tick # NoTick
  /\ tick.scene = "dark"
  /\ inFlight # << >>
  /\ prevFrameRef = GrayOfTick(tick)

\* |a[1] - b[1]| + ... + |a[n] - b[n]|
RECURSIVE AbsDiffTo(_, _, _)
AbsDiffTo(a, b, n) ==
  IF n = 0 THEN 0
  ELSE (IF a[n] >= b[n] THEN a[n] - b[n] ELSE b[n] - a[n]) + AbsDiffTo(a, b, n - 1)

\* C23: with a previous buffer of the same size the motion of a frame is the
\* sum of the absolute differences of the samples of the two buffers divided
\* by the number of samples, so it is 0 for two identical buffers; the
\* previous buffer is read as the last analyzed frame left it.
C23_MotionIsMeanAbsoluteDifference ==
  [][(Analyzed /\ prevFrameRef # << >>
        /\ Len(prevFrameRef) = Len(prevFrameRef')) =>
       /\ tick'.motion.den > 0
       /\ tick'.motion.num * Len(prevFrameRef')
            = AbsDiffTo(prevFrameRef', prevFrameRef, Len(prevFrameRef'))
                * tick'.motion.den
       /\ prevFrameRef' = prevFrameRef => tick'.motion.num = 0]_vars

\* C23: a frame that differs from the previous buffer of the same size, with
\* a motion above 0.
C23_Witness ==
  /\ tick # NoTick
  /\ tick.motion.den = Len(prevFrameRef)
  /\ tick.motion.den > 1
  /\ tick.motion.num > 0
  /\ analyzedTicks >= 2

\* the Laplacian responses of the interior pixels of the analyzed buffer
InteriorLap ==
  LET lap == LapMap(output.gray, input.width, input.height)
      ix == { i \in DOMAIN lap :
                Interior((i - 1) % input.width, (i - 1) \div input.width,
                         input.width, input.height) }
  IN [i \in ix |-> lap[i]]

\* the sum of f over the set of indices s
RECURSIVE SumOver(_, _)
SumOver(f, s) ==
  IF s = {} THEN 0
  ELSE LET i == CHOOSE j \in s : TRUE IN f[i] + SumOver(f, s \ {i})

\* C24: for a buffer of at least 3 x 3 samples the sharpness is the
\* population variance of the Laplacian responses of the interior pixels:
\* their mean first, then the mean of their squared deviations from it.
C24_SharpnessIsInteriorVariance ==
  (output # Pending /\ input.width >= 3 /\ input.height >= 3) =>
    LET lap == InteriorLap
        n == Cardinality(DOMAIN lap)
        total == SumOver(lap, DOMAIN lap)
        devs == [i \in DOMAIN lap |-> (n * lap[i] - total) * (n * lap[i] - total)]
    IN output.lapVar.num * n * n * n
         = SumOver(devs, DOMAIN lap) * output.lapVar.den

\* analyzeRoi was applied to a buffer
Analysed == output # Pending

\* C25: a buffer of any size whose samples are all equal has sharpness 0.
C25_UniformBufferHasSharpnessZero ==
  (Analysed /\ \A i \in DOMAIN output.gray : output.gray[i] = output.gray[1]) =>
    (output.lapVar.num = 0 /\ output.lapVar.den # 0)

\* C25: an all-white buffer with interior pixels and sharpness 0.
C25_Witness ==
  /\ Analysed
  /\ input.width >= 3 /\ input.height >= 3
  /\ \A i \in DOMAIN output.gray : output.gray[i] = 255
  /\ output.lapVar.num = 0

\* the number of i in 1..n with s[i] > t
RECURSIVE CountAbove(_, _, _)
CountAbove(s, t, n) ==
  IF n = 0 THEN 0
  ELSE (IF s[n] > t THEN 1 ELSE 0) + CountAbove(s, t, n - 1)

\* C26: the fill ratio is the number of samples above 60 divided by the
\* number of samples; it lies between 0 and 1, a sample of exactly 60 does
\* not count, an all-black buffer has ratio 0 and an all-white buffer 1.
C26_FillRatioCountsAboveFloor ==
  Analysed =>
    LET g == output.gray
        f == output.fillRatio
    IN /\ f.den = input.width * input.height
       /\ f.num = CountAbove(g, 60, Len(g))
       /\ 0 <= f.num /\ f.num <= f.den
       /\ (\A i \in DOMAIN g : g[i] <= 60) => f.num = 0
       /\ (\A i \in DOMAIN g : g[i] = 0) => f.num = 0
       /\ (\A i \in DOMAIN g : g[i] = 255) => f.num = f.den

\* C26: a buffer with one sample of 61 among samples of 60: only that one
\* counts.
C26_Witness ==
  /\ Analysed
  /\ \E i \in DOMAIN output.gray : output.gray[i] = 60
  /\ \E i \in DOMAIN output.gray : output.gray[i] = 61
  /\ output.fillRatio.num = 1
  /\ output.fillRatio.den > 1

\* the band thickness the edge ratios were computed with
BandUsed == output.edge.topR.den \div input.width

\* the pixels of the strip [sx, sx + sw) x [sy, sy + sh) whose gradient
\* magnitude exceeds the threshold mean + 1.2 std of the whole map
EdgePixels(sx, sy, sw, sh) ==
  LET sobel == SobelMap(output.gray, input.width, input.height)
      sum == SeqSum(sobel)
      sum2 == SeqSum([i \in DOMAIN sobel |-> sobel[i] * sobel[i]])
  IN { i \in DOMAIN sobel :
         /\ (i - 1) % input.width >= sx /\ (i - 1) % input.width < sx + sw
         /\ (i - 1) \div input.width >= sy /\ (i - 1) \div input.width < sy + sh
         /\ AboveThr(sobel[i], sum, sum2, Len(sobel)) }

\* C27: the band thickness is max(1, round(edgeBandFrac * min(width,
\* height))); the four strips lie inside the buffer; every edge ratio is the
\* number of pixels of its strip above the threshold divided by the number
\* of pixels of the strip, so it lies between 0 and 1.
C27_EdgeRatiosOverBands ==
  Analysed =>
    LET w == input.width
        h == input.height
        frac == IF "edgeBandFrac" \in DOMAIN opts THEN opts.edgeBandFrac
                ELSE DEFAULT_OPTS.edgeBandFrac
        m == IF w <= h THEN w ELSE h
        r == (2 * frac * m + 100) \div 200
        band == IF r >= 1 THEN r ELSE 1
        e == output.edge
    IN /\ BandUsed = band
       /\ 1 <= band /\ band <= w /\ band <= h
       /\ e.topR.den = w * band /\ e.botR.den = w * band
       /\ e.leftR.den = h * band /\ e.rightR.den = h * band
       /\ e.topR.num = Cardinality(EdgePixels(0, 0, w, band))
       /\ e.botR.num = Cardinality(EdgePixels(0, h - band, w, band))
       /\ e.leftR.num = Cardinality(EdgePixels(0, 0, band, h))
       /\ e.rightR.num = Cardinality(EdgePixels(w - band, 0, band, h))
       /\ \A q \in {e.topR, e.botR, e.leftR, e.rightR} :
            0 <= q.num /\ q.num <= q.den

\* C27: a band two pixels thick with an edge pixel in the top strip.
C27_Witness ==
  /\ Analysed
  /\ BandUsed = 2
  /\ output.edge.topR.num > 0
  /\ output.edge.topR.num < output.edge.topR.den

\* C28: the buffer of an analyzed frame has the width and the height of the
\* buffer of the analyzed frame before it, whatever the layout reports for
\* the guide and the container in between.
C28_BufferSizeConstant ==
  [][(Analyzed /\ prevFrameRef # << >>) =>
       /\ Len(prevFrameRef') = Len(prevFrameRef)
       /\ W * tick'.height = Len(prevFrameRef)]_vars

\* C29: the extraction started by a trigger holds the region mapped on the
\* triggering tick and the frame that tick analyzed, a frame that passed
\* every check; later ticks leave an outstanding extraction as it is, and
\* the artifact handed over is cut from that region of that frame.
C29_ArtifactIsTriggeringFrame ==
  [][/\ Triggered =>
          /\ tick'.analyzed /\ allPassOf(tick'.checks)
          /\ inFlight' = Append(inFlight, [roi |-> tick'.roiVid,
                                           frame |-> tick'.scene])
     /\ (Analyzed /\ ~Triggered) => inFlight' = inFlight
     /\ artifact'.delivered =>
          \E i \in DOMAIN inFlight :
            /\ artifact'.roi = inFlight[i].roi
            /\ artifact'.frame = inFlight[i].frame
            /\ Len(inFlight') = Len(inFlight) - 1]_vars

\* C29: an artifact handed over after a later tick had analyzed another
\* frame: the previous buffer is not the one of the artifact's frame.
C29_Witness ==
  /\ artifact.delivered
  /\ prevFrameRef # GrayOf(ImageOf(artifact.frame, W, HeightOf(artifact.roi)))

\* C30: in the start/stop-button variant, once the camera was started and
\* the stream is playing, every tick that can measure the video element,
\* its size and the guide is analyzed.
C30_ActiveTicksAreAnalyzed ==
  [][("measurable" \in DOMAIN tick' /\ active /\ cameraLive /\ tick'.measurable)
       => tick'.analyzed]_vars

\* the four edge ratios are 0
EdgesZero(e) ==
  /\ e.topR.num = 0 /\ e.botR.num = 0
  /\ e.leftR.num = 0 /\ e.rightR.num = 0

\* analyzeRoi gives four edge ratios of 0 for every buffer and every
\* edgeBandFrac for which the band is one pixel thick
OnePixelBandHasNoEdges ==
  \A img \in MetricInputs, o \in MetricOpts :
    BandOf(o, img.width, img.height) = 1 => EdgesZero(analyzeRoi(img, o).edge)

\* C31: when the band is one pixel thick the four edge ratios are 0, for
\* the frame of every analyzed tick and for every buffer; with edgeRatioMin
\* above 0 such a tick fails on the edges and triggers nothing, and a
\* session whose buffers all have a band of one pixel never triggers a
\* capture.
C31_OnePixelBandNeverPasses ==
  [][/\ OnePixelBandHasNoEdges
     /\ (Analyzed /\ BandOf(opts, W, tick'.height) = 1) =>
          /\ EdgesZero(analyzed[tick'.scene, tick'.height, opts].edge)
          /\ Opt(opts, "edgeRatioMin") > 0 =>
               /\ ~tick'.checks.passEdges
               /\ last' = "fail"
               /\ stableCountRef' = 0
               /\ ~Triggered
     /\ ((\A h \in Heights : BandOf(opts, W, h) = 1)
          /\ Opt(opts, "edgeRatioMin") > 0) =>
          (triggers' = 0 /\ passRun' = 0 /\ captured' = 0)]_vars

\* C31: a frame analyzed with a band of one pixel that passes every check
\* but the one on the edges.
C31_Witness ==
  /\ tick.analyzed
  /\ BandOf(opts, W, tick.height) = 1
  /\ Opt(opts, "edgeRatioMin") > 0
  /\ ~tick.checks.passEdges
  /\ tick.checks.passSharp /\ tick.checks.passFill /\ tick.checks.passMotion
  /\ tick.checks.ratioOk /\ tick.checks.passTime
  /\ last = "fail"

====
